---- MODULE Spec2Model ----
(***************************************************************************)
(* mongodb-queue.js: a lease-based message queue kept in one MongoDB       *)
(* collection, with an optional dead-letter queue.                         *)
(*                                                                         *)
(* Modelling conventions                                                   *)
(*  - time is an integer number of seconds; now() is the variable now and  *)
(*    nowPlusSecs(s) is now + s.  The timestamps a method computes and the *)
(*    store call it issues happen at one instant (one action).             *)
(*  - a missing field / undefined / null is 0 for numbers and tokens, ""   *)
(*    for strings and None (-1) for the deleted timestamp and for the      *)
(*    delay option, where 0 is a value of its own.                         *)
(*  - the collection is a function from _id to document (the store keeps   *)
(*    _id unique); the ids the store generates on insert sort after the    *)
(*    custom ids given to addIfMissing.                                    *)
(*  - id() hands out a token never handed out before (nextTok).            *)
(*  - the dead-letter queue is another Queue; only its add is used here,   *)
(*    and deadCol lists the payloads added to it.                          *)
(***************************************************************************)
EXTENDS Integers, Sequences, FiniteSets, TLC

\* ------------------------------------------------------------- bounds ---
MaxTime == 2
MaxTok  == 3

Procs       == {1, 2}
\* the ids callers give to addIfMissing, and every _id of the collection
CustomIds   == {1}
AllIds      == {1, 2}
Payloads    == {"a", "b"}
AddPayloads == {"a"}
\* a missing field of a document, a missing option of a call
None == -1

\* the visibility option of a call; 0 stands for "not given"
VisOpts     == {0, 1}
\* the delay option of a call; None when the call gives none
DelayOpts   == {None, 0, 1}

\* ------------------------------------------------ constructor options ---
DefaultVisibility == 30
DefaultDelay      == 0
DefaultMaxRetries == 5

\* the options the queue under test is constructed with
QueueOpts ==
    [visibility |-> 2, delay |-> 0, deadQueue |-> TRUE, maxRetries |-> 2]
\* the same with a retry ceiling of 1
QueueOptsRetry1 == [QueueOpts EXCEPT !.maxRetries = 1]
\* the same with a default delay of 1 as well
QueueOptsDelay == [QueueOptsRetry1 EXCEPT !.delay = 1]

\* now      the clock, in seconds
\* self     the Queue object: visibility, delay, deadQueue, maxRetries
\* col      the collection: _id -> [visible, payload, tries, ack, deleted]
\* deadCol  the payloads added to the dead-letter queue
\* nextTok  the next token of id();  nextOid  the next generated _id
\* pc, cur  where each consumer stands in get's dead-letter sequence, and
\*          the message it is redirecting
\* ret      the callback made by the last step (NoCallback if none)
\* claims   history: the number of claims get made of each stored message
\* depth    the number of messages that call has redirected so far
\* tokCap   the number of tokens id() may hand out in the run
VARIABLES now, self, col, deadCol, nextTok, nextOid, pc, cur, ret, claims,
          depth, tokCap

vars == <<now, self, col, deadCol, nextTok, nextOid, pc, cur, ret, claims,
          depth, tokCap>>

\* JavaScript  a || b  on numbers (0 and undefined are falsy)
Or(a, b) == IF a # 0 /\ a # None THEN a ELSE b

nowPlusSecs(secs) == now + secs

\* function Queue(mongoDbClient, name, opts)
Queue(opts) ==
    [visibility |-> Or(opts.visibility, DefaultVisibility),
     delay      |-> Or(opts.delay, DefaultDelay),
     deadQueue  |-> opts.deadQueue,
     maxRetries |-> IF opts.deadQueue THEN Or(opts.maxRetries, DefaultMaxRetries)
                    ELSE 0]

\* the _id the store generates for the n-th inserted document; generated
\* ids sort after the custom ones
GenId(n) == Cardinality(CustomIds) + n

Min(S) == CHOOSE i \in S : \A j \in S : i <= j

\* the visibility option each consumer passes to its get calls: consumer 1
\* passes none, the others pass the shortest one
CallOpts == [p \in Procs |-> IF p = 1 THEN 0 ELSE Min(VisOpts \ {0})]

NoMsg == [id |-> 0, ack |-> 0, payload |-> "", tries |-> 0]

\* the callback invoked by the last step (op = "" when none was)
Callback(op, err, id, ack, payload, tries, ids) ==
    [op |-> op, err |-> err, id |-> id, ack |-> ack, payload |-> payload,
     tries |-> tries, ids |-> ids]

NoCallback == Callback("", "", 0, 0, "", 0, <<>>)

\* a freshly inserted document: only visible and payload are set
NewDoc(visible, payload) ==
    [visible |-> visible, payload |-> payload, tries |-> 0, ack |-> 0,
     deleted |-> None]

Insert(f, i, d) == [j \in DOMAIN f \cup {i} |-> IF j = i THEN d ELSE f[j]]

\* the state after construction at time t, with cap tokens to hand out
InitAt(opts, t, cap) ==
    /\ now = t
    /\ self = Queue(opts)
    /\ col = <<>>
    /\ deadCol = <<>>
    /\ nextTok = 1
    /\ nextOid = 1
    /\ pc = [p \in Procs |-> "idle"]
    /\ cur = [p \in Procs |-> NoMsg]
    /\ ret = NoCallback
    /\ claims = <<>>
    /\ depth = [p \in Procs |-> 0]
    /\ tokCap = cap

InitWith(opts) == InitAt(opts, 0, MaxTok)

Init == InitWith(QueueOpts)

InitRetry1 == InitWith(QueueOptsRetry1)

InitDelay == InitWith(QueueOptsDelay)

\* a queue with a retry ceiling of 1 constructed one tick before the end
\* of the run, with one more token to hand out
InitDeep == InitAt(QueueOptsRetry1, MaxTime - 1, MaxTok + 1)

\* ------------------------------------------------------------- time -----
Tick ==
    /\ now < MaxTime
    /\ now' = now + 1
    /\ ret' = NoCallback
    /\ UNCHANGED <<self, tokCap, col, deadCol, nextTok, nextOid, pc, cur, claims, depth>>
\* mutant: the delay is not applied
InsertVisibleNow(optDelay) == now

\* ----------------------------------------------------- addIfMissing -----
InsertVisible(optDelay) ==
    LET delay == Or(optDelay, self.delay)
    IN  IF delay # 0 THEN nowPlusSecs(delay) ELSE now

\* result.nUpserted of updateOne(..., { upsert: true })
NUpserted(id) == IF id \in DOMAIN col THEN 0 ELSE 1

\* mutant: the two results swapped
AddIfMissingResultSwapped(id) == IF NUpserted(id) = 1 THEN 0 ELSE id

\* callback(null, result.nUpserted === 1 ? id : null)
AddIfMissingResult(id) == IF NUpserted(id) = 1 THEN id ELSE 0

\* mutant: $set in place of $setOnInsert
SetOnInsertOverwrites(id, msg) ==
    IF id \in DOMAIN col
    THEN [col EXCEPT ![id] = [@ EXCEPT !.visible = msg.visible,
                                       !.payload = msg.payload]]
    ELSE Insert(col, id, msg)

\* updateOne({_id: id}, { $setOnInsert: msg }, { upsert: true })
SetOnInsert(id, msg) == IF id \in DOMAIN col THEN col ELSE Insert(col, id, msg)

AddIfMissing(id, payload, optDelay) ==
    LET msg == NewDoc(InsertVisible(optDelay), payload)
    IN  /\ col' = SetOnInsert(id, msg)
        /\ claims' = IF id \in DOMAIN col THEN claims ELSE Insert(claims, id, 0)
        /\ ret' = Callback("addIfMissing", "", AddIfMissingResult(id), 0, "", 0, <<>>)
        /\ UNCHANGED <<now, self, tokCap, deadCol, nextTok, nextOid, pc, cur, depth>>

\* -------------------------------------------------------------- add -----
InsertMany(f, n, visible, payloads) ==
    [j \in DOMAIN f \cup {GenId(n + k - 1) : k \in 1..Len(payloads)} |->
        IF j \in DOMAIN f THEN f[j]
        ELSE NewDoc(visible, payloads[j - GenId(n) + 1])]

Add(payload, optDelay) ==
    /\ GenId(nextOid) \in AllIds
    /\ col' = InsertMany(col, nextOid, InsertVisible(optDelay), <<payload>>)
    /\ claims' = Insert(claims, GenId(nextOid), 0)
    /\ nextOid' = nextOid + 1
    /\ ret' = Callback("add", "", GenId(nextOid), 0, "", 0, <<>>)
    /\ UNCHANGED <<now, self, tokCap, deadCol, nextTok, pc, cur, depth>>

AddArray(payloads, optDelay) ==
    /\ \A k \in 1..Len(payloads) : GenId(nextOid + k - 1) \in AllIds
    /\ IF Len(payloads) = 0
       THEN /\ ret' = Callback("add", "empty array", 0, 0, "", 0, <<>>)
            /\ UNCHANGED <<col, claims, nextOid>>
       ELSE /\ col' = InsertMany(col, nextOid, InsertVisible(optDelay), payloads)
            /\ claims' = [j \in DOMAIN col' |->
                             IF j \in DOMAIN claims THEN claims[j] ELSE 0]
            /\ nextOid' = nextOid + Len(payloads)
            /\ ret' = Callback("add", "", 0, 0, "", 0,
                               [k \in 1..Len(payloads) |-> GenId(nextOid + k - 1)])
    /\ UNCHANGED <<now, self, tokCap, deadCol, nextTok, pc, cur, depth>>

\* -------------------------------------------------------------- get -----
\* mutant: the visible test left out of the query
GetQueryAnyTime(d) == d.deleted = None

\* query of get: { deleted : null, visible : { $lte : now() } }
GetQuery(d) == d.deleted = None /\ d.visible <= now

\* mutant: the $inc left out of the update
GetUpdateKeepsTries(d, tok, visibility) ==
    [d EXCEPT !.ack = tok, !.visible = nowPlusSecs(visibility)]
\* mutant: the claim leaves the stored token as it is
GetUpdateKeepsToken(d, tok, visibility) ==
    [d EXCEPT !.tries = @ + 1, !.visible = nowPlusSecs(visibility)]

\* update of get: $inc tries, $set ack and visible
GetUpdate(d, tok, visibility) ==
    [d EXCEPT !.tries = @ + 1, !.ack = tok, !.visible = nowPlusSecs(visibility)]
\* mutant: the sort of the claim reversed
GetSelectLargest ==
    CHOOSE i \in {k \in DOMAIN col : GetQuery(col[k])} :
        \A j \in {k \in DOMAIN col : GetQuery(col[k])} : j <= i

\* sort { _id : 1 } : findOneAndUpdate takes the first match
GetSelect == Min({i \in DOMAIN col : GetQuery(col[i])})

\* external representation of a claimed document
External(i, d) == [id |-> i, ack |-> d.ack, payload |-> d.payload, tries |-> d.tries]

\* mutant: the ceiling compared with >=
OverRetriedOffByOne(msg) == self.deadQueue /\ msg.tries >= self.maxRetries
\* mutant: the ceiling is one claim too high
OverRetriedLate(msg) == self.deadQueue /\ msg.tries > self.maxRetries + 1

\* the dead-letter test made on the claimed message
OverRetried(msg) == self.deadQueue /\ msg.tries > self.maxRetries

\* one pass through Queue.prototype.get, up to its callback or to the
\* start of the dead-letter sequence
GetBody(p, optVis) ==
    LET visibility == Or(optVis, self.visibility)
    IN  IF {i \in DOMAIN col : GetQuery(col[i])} = {}
        THEN /\ ret' = Callback("get", "", 0, 0, "", 0, <<>>)
             /\ pc' = [pc EXCEPT ![p] = "idle"]
             /\ cur' = [cur EXCEPT ![p] = NoMsg]
             /\ UNCHANGED <<col, nextTok, claims>>
        ELSE LET i   == GetSelect
                 doc == GetUpdate(col[i], nextTok, visibility)
                 msg == External(i, doc)
             IN  /\ nextTok <= tokCap
                 /\ col' = [col EXCEPT ![i] = doc]
                 /\ nextTok' = nextTok + 1
                 /\ claims' = [claims EXCEPT ![i] = @ + 1]
                 /\ IF OverRetried(msg)
                    THEN /\ pc' = [pc EXCEPT ![p] = "dead_add"]
                         /\ cur' = [cur EXCEPT ![p] = msg]
                         /\ ret' = NoCallback
                    ELSE /\ pc' = [pc EXCEPT ![p] = "idle"]
                         /\ cur' = [cur EXCEPT ![p] = NoMsg]
                         /\ ret' = Callback("get", "", msg.id, msg.ack,
                                            msg.payload, msg.tries, <<>>)

\* the call consumer p is in after the step has redirected n messages;
\* none once it has called back
InCall(p, n) ==
    depth' = [depth EXCEPT ![p] = IF pc'[p] = "idle" THEN 0 ELSE n]

\* a caller's call of get
Get(p, optVis) ==
    /\ pc[p] = "idle"
    /\ GetBody(p, optVis)
    /\ InCall(p, 1)
    /\ UNCHANGED <<now, self, tokCap, deadCol, nextOid>>

\* mutant: the sequence goes on to the ack without the dead-letter insert
DeadAddSkipped(p) ==
    /\ pc[p] = "dead_add"
    /\ pc' = [pc EXCEPT ![p] = "dead_ack"]
    /\ ret' = NoCallback
    /\ UNCHANGED <<now, self, tokCap, col, deadCol, nextTok, nextOid, cur, claims, depth>>

\* 1) self.deadQueue.add(msg, ...): deadCol lists the payloads added to the
\*    dead-letter queue, in the order of their insertion
DeadAdd(p) ==
    /\ pc[p] = "dead_add"
    /\ deadCol' = Append(deadCol, cur[p])
    /\ pc' = [pc EXCEPT ![p] = "dead_ack"]
    /\ ret' = NoCallback
    /\ UNCHANGED <<now, self, tokCap, col, nextTok, nextOid, cur, claims, depth>>

\* mutant: the visible test left out of the query
AckQueryAnyTime(d, ack) == d.ack = ack /\ d.deleted = None

\* query of ack (and of ping): the token, a running lease, not finalized
AckQuery(d, ack) == d.ack = ack /\ d.visible > now /\ d.deleted = None

PingQuery(d, ack) == d.ack = ack /\ d.visible > now /\ d.deleted = None

AckUpdate(d) == [d EXCEPT !.deleted = now]

\* mutant: ping counted as a try
PingUpdateCountsTry(d, visibility) ==
    [d EXCEPT !.visible = nowPlusSecs(visibility), !.tries = @ + 1]

PingUpdate(d, visibility) == [d EXCEPT !.visible = nowPlusSecs(visibility)]

\* 2) self.ack(msg.ack, ...) inside get
DeadAck(p) ==
    /\ pc[p] = "dead_ack"
    /\ LET hit == {i \in DOMAIN col : AckQuery(col[i], cur[p].ack)}
       IN  IF hit = {}
           THEN /\ ret' = Callback("get", "unidentified ack", 0, 0, "", 0, <<>>)
                /\ pc' = [pc EXCEPT ![p] = "idle"]
                /\ cur' = [cur EXCEPT ![p] = NoMsg]
                /\ UNCHANGED col
           ELSE /\ col' = [col EXCEPT ![Min(hit)] = AckUpdate(@)]
                /\ pc' = [pc EXCEPT ![p] = "reget"]
                /\ ret' = NoCallback
                /\ UNCHANGED cur
    /\ InCall(p, depth[p])
    /\ UNCHANGED <<now, self, tokCap, deadCol, nextTok, nextOid, claims>>
\* mutant: the recursive call gives up without a claim
ReGetGivesUp(p) ==
    /\ pc[p] = "reget"
    /\ pc' = [pc EXCEPT ![p] = "idle"]
    /\ cur' = [cur EXCEPT ![p] = NoMsg]
    /\ ret' = Callback("get", "", 0, 0, "", 0, <<>>)
    /\ InCall(p, 0)
    /\ UNCHANGED <<now, self, tokCap, col, deadCol, nextTok, nextOid, claims>>

\* 3) self.get(callback): the recursive call passes no options
ReGet(p) ==
    /\ pc[p] = "reget"
    /\ GetBody(p, 0)
    /\ InCall(p, depth[p] + 1)
    /\ UNCHANGED <<now, self, tokCap, deadCol, nextOid>>

\* a store call of the dead-letter sequence fails: if (err) return callback(err)
StoreError(p) ==
    /\ pc[p] # "idle"
    /\ pc' = [pc EXCEPT ![p] = "idle"]
    /\ cur' = [cur EXCEPT ![p] = NoMsg]
    /\ ret' = Callback("get", "store error", 0, 0, "", 0, <<>>)
    /\ InCall(p, 0)
    /\ UNCHANGED <<now, self, tokCap, col, deadCol, nextTok, nextOid, claims>>

\* the consumer process dies in the middle of the dead-letter sequence
Crash(p) ==
    /\ pc[p] # "idle"
    /\ pc' = [pc EXCEPT ![p] = "idle"]
    /\ cur' = [cur EXCEPT ![p] = NoMsg]
    /\ ret' = NoCallback
    /\ InCall(p, 0)
    /\ UNCHANGED <<now, self, tokCap, col, deadCol, nextTok, nextOid, claims>>

\* ------------------------------------------------------- ping / ack -----
Ping(ack, optVis) ==
    LET visibility == Or(optVis, self.visibility)
        hit == {i \in DOMAIN col : PingQuery(col[i], ack)}
    IN  /\ IF hit = {}
           THEN /\ ret' = Callback("ping", "unidentified ack", 0, 0, "", 0, <<>>)
                /\ UNCHANGED col
           ELSE /\ col' = [col EXCEPT ![Min(hit)] = PingUpdate(@, visibility)]
                /\ ret' = Callback("ping", "", Min(hit), 0, "", 0, <<>>)
        /\ UNCHANGED <<now, self, tokCap, deadCol, nextTok, nextOid, pc, cur, claims, depth>>

Ack(ack) ==
    LET hit == {i \in DOMAIN col : AckQuery(col[i], ack)}
    IN  /\ IF hit = {}
           THEN /\ ret' = Callback("ack", "unidentified ack", 0, 0, "", 0, <<>>)
                /\ UNCHANGED col
           ELSE /\ col' = [col EXCEPT ![Min(hit)] = AckUpdate(@)]
                /\ ret' = Callback("ack", "", Min(hit), 0, "", 0, <<>>)
        /\ UNCHANGED <<now, self, tokCap, deadCol, nextTok, nextOid, pc, cur, claims, depth>>

\* ----------------------------------------------------------- cancel -----
\* mutant: the deleted test left out of the query
CancelQueryAnyState(i, d, id) == i = id /\ d.visible <= now

\* mutant: the visible test left out of the query
CancelQueryAnyTime(i, d, id) == i = id /\ d.deleted = None

CancelQuery(i, d, id) == i = id /\ d.deleted = None /\ d.visible <= now

CancelUpdate(d) == [d EXCEPT !.deleted = now]

Cancel(id) ==
    LET hit == {i \in DOMAIN col : CancelQuery(i, col[i], id)}
    IN  /\ IF hit = {}
           THEN /\ ret' = Callback("cancel", "unidentified id", 0, 0, "", 0, <<>>)
                /\ UNCHANGED col
           ELSE /\ col' = [col EXCEPT ![id] = CancelUpdate(@)]
                /\ ret' = Callback("cancel", "", 0, 0, "", 0, <<>>)
        /\ UNCHANGED <<now, self, tokCap, deadCol, nextTok, nextOid, pc, cur, claims, depth>>
\* mutant: clean removes what was ever claimed
CleanQueryClaimed(d) == d.ack # 0

\* ------------------------------------------------------------ clean -----
\* query of clean: { deleted : { $exists : true } }
CleanQuery(d) == d.deleted # None

Clean ==
    LET keep == {i \in DOMAIN col : ~CleanQuery(col[i])}
    IN  /\ col' = [i \in keep |-> col[i]]
        /\ claims' = [i \in keep |-> claims[i]]
        /\ ret' = Callback("clean", "", 0, 0, "", 0, <<>>)
        /\ UNCHANGED <<now, self, tokCap, deadCol, nextTok, nextOid, pc, cur, depth>>

\* ------------------------------------- total, size, inFlight, done -----
\* the four counts read the collection and change nothing; each is the
\* number of documents its query matches at the instant of the call
Total == Cardinality(DOMAIN col)

SizeQuery(d) == d.deleted = None /\ d.visible <= now

Size == Cardinality({i \in DOMAIN col : SizeQuery(col[i])})

\* mutant: the visible test left out of the query
InFlightQueryAnyTime(d) == d.ack # 0 /\ d.deleted = None

InFlightQuery(d) == d.ack # 0 /\ d.visible > now /\ d.deleted = None

InFlight == Cardinality({i \in DOMAIN col : InFlightQuery(col[i])})

DoneQuery(d) == d.deleted # None

Done == Cardinality({i \in DOMAIN col : DoneQuery(col[i])})

\* ------------------------------------------------------------- spec -----
\* the tokens a caller may pass to ping and ack
Tokens == 1..tokCap
PayloadArrays == {<<>>} \cup {<<x>> : x \in AddPayloads}

Next ==
    \/ Tick
    \/ \E id \in CustomIds, x \in Payloads, d \in DelayOpts : AddIfMissing(id, x, d)
    \/ \E x \in AddPayloads, d \in DelayOpts : Add(x, d)
    \/ \E xs \in PayloadArrays, d \in DelayOpts : AddArray(xs, d)
    \/ \E p \in Procs : Get(p, CallOpts[p])
    \/ \E p \in Procs : DeadAdd(p)
    \/ \E p \in Procs : DeadAck(p)
    \/ \E p \in Procs : ReGet(p)
    \/ \E p \in Procs : StoreError(p)
    \/ \E p \in Procs : Crash(p)
    \/ \E t \in Tokens, v \in VisOpts : Ping(t, v)
    \/ \E t \in Tokens : Ack(t)
    \/ \E id \in AllIds : Cancel(id)
    \/ Clean

Spec == Init /\ [][Next]_vars

SpecRetry1 == InitRetry1 /\ [][Next]_vars

SpecDelay == InitDelay /\ [][Next]_vars

SpecDeep == InitDeep /\ [][Next]_vars

TypeOK ==
    /\ now \in 0..MaxTime
    /\ nextTok \in 1..(tokCap + 1)
    /\ \A p \in Procs : CallOpts[p] \in VisOpts /\ depth[p] \in 0..tokCap
    /\ \A p \in Procs : pc[p] = "idle" <=> depth[p] = 0
    /\ nextOid \in 1..(Cardinality(AllIds) + 1)
    /\ DOMAIN col \subseteq AllIds
    /\ DOMAIN claims = DOMAIN col
    /\ \A p \in Procs : pc[p] \in {"idle", "dead_add", "dead_ack", "reget"}

\* ----------------------------------------------------------- claims -----
Finalized(i) == col[i].deleted # None

\* message i is under a lease that is still running
LeaseLive(i) == /\ col[i].deleted = None
                /\ col[i].visible > now
                /\ col[i].ack # 0

\* message i was claimed before and its lease is over
LeaseExpired(i) == /\ col[i].deleted = None
                   /\ col[i].visible <= now
                   /\ col[i].ack # 0

\* t is the stored token of a running lease
TokenLive(t) == \E i \in DOMAIN col : col[i].ack = t /\ LeaseLive(i)

\* the last step called back a get with a message / with nothing
GotMsg(r)  == r.op = "get" /\ r.err = "" /\ r.id # 0
GotNone(r) == r.op = "get" /\ r.err = "" /\ r.id = 0

\* C1: at-most-one-claimant.  While message i is under a running lease, no
\* step returns i from a get and no step replaces or drops its token: the
\* message stays with the one claimant until the lease ends.
C1_AtMostOneClaimant ==
    [][\A i \in DOMAIN col :
          LeaseLive(i) =>
              /\ ~(GotMsg(ret') /\ ret'.id = i)
              /\ i \in DOMAIN col'
              /\ col'[i].ack = col[i].ack
              /\ col'[i].tries = col[i].tries]_vars

\* a get came back empty although a claimed message is in the collection,
\* while a second message has been claimed twice
C1_Witness ==
    /\ GotNone(ret)
    /\ \E i \in DOMAIN col : LeaseLive(i)
    /\ \E i \in DOMAIN col : col[i].tries >= 2

\* C2: unknown token rejected.  ping(t) and ack(t) with a token t that is
\* not the stored token of a running lease (never issued, lease expired,
\* replaced by a later claim, message finalized) fail with "unidentified
\* ack" and change no message.
C2_UnknownTokenRejected ==
    [][ret'.op \in {"ping", "ack"} =>
          \/ /\ ret'.err = "unidentified ack"
             /\ ret'.id = 0
             /\ col' = col
          \/ \A t \in Tokens :
                ((\E v \in VisOpts : Ping(t, v)) \/ Ack(t)) => TokenLive(t)]_vars

\* a ping or ack was rejected while a message re-claimed after an expired
\* lease is leased under its new token
C2_Witness ==
    /\ ret.op \in {"ping", "ack"}
    /\ ret.err = "unidentified ack"
    /\ \E i \in DOMAIN col : LeaseLive(i) /\ col[i].tries >= 2

\* C3: lease expiry reclaim.  A message whose lease is over is claimable
\* with no further call: a get never comes back empty while there is one,
\* and a get that returns a message claimed before reports tries one above
\* the stored count and a token other than the previous one.
C3_LeaseExpiryReclaim ==
    [][/\ GotNone(ret') => ~(\E i \in DOMAIN col : LeaseExpired(i))
       /\ \A i \in DOMAIN col :
             (GotMsg(ret') /\ ret'.id = i /\ col[i].ack # 0) =>
                 /\ LeaseExpired(i)
                 /\ ret'.tries = col[i].tries + 1
                 /\ ret'.ack # col[i].ack
                 /\ col'[i].ack = ret'.ack
                 /\ col'[i].tries = ret'.tries
                 /\ LeaseLive(i)']_vars

\* a get returned a message on its second claim
C3_Witness == GotMsg(ret) /\ ret.tries = 2

\* the step is a claim of message i
Claimed(i) == /\ i \in DOMAIN col /\ i \in DOMAIN col'
              /\ col'[i].tries = col[i].tries + 1

\* C4: retry ceiling forwards to dead letter.  A claim that takes tries
\* above maxRetries calls nothing back and starts the dead-letter sequence
\* with the message {id, ack, tries, payload}; a claim within the ceiling is
\* returned.  The sequence appends exactly that message to the dead-letter
\* queue, then finalizes the original, and only then claims again; a
\* finalized message is returned by no get.
C4_RetryCeilingToDeadLetter ==
    [][/\ \A i \in DOMAIN col :
             /\ (Claimed(i) /\ col'[i].tries > self.maxRetries) =>
                   /\ ret' = NoCallback
                   /\ \E p \in Procs :
                        /\ pc[p] \in {"idle", "reget"}
                        /\ pc'[p] = "dead_add"
                        /\ cur'[p] = [id |-> i, ack |-> col'[i].ack,
                                      payload |-> col[i].payload,
                                      tries |-> col'[i].tries]
             /\ (Claimed(i) /\ col'[i].tries <= self.maxRetries) =>
                   /\ GotMsg(ret') /\ ret'.id = i
                   /\ \A p \in Procs : pc'[p] # "dead_add" \/ pc[p] = "dead_add"
             /\ Finalized(i) => ~(GotMsg(ret') /\ ret'.id = i)
       /\ \A p \in Procs :
             /\ (pc[p] = "dead_add" /\ pc'[p] = "dead_ack") =>
                   /\ deadCol' = Append(deadCol, cur[p])
                   /\ col' = col
             /\ (pc[p] = "dead_ack" /\ pc'[p] = "reget") =>
                   /\ cur[p].id \in DOMAIN col'
                   /\ col'[cur[p].id].ack = cur[p].ack
                   /\ col'[cur[p].id].deleted # None
                   /\ deadCol' = deadCol
             /\ pc'[p] = "reget" => pc[p] \in {"dead_ack", "reget"}
             /\ pc'[p] = "dead_ack" => pc[p] \in {"dead_add", "dead_ack"}]_vars

\* the third claim of a message was redirected: its wrapper is in the
\* dead-letter queue, the original is finalized and get is about to recurse
C4_Witness ==
    \E p \in Procs :
        /\ pc[p] = "reget"
        /\ cur[p].tries = 3
        /\ cur[p].id \in DOMAIN col
        /\ col[cur[p].id].deleted # None
        /\ \E k \in 1..Len(deadCol) : deadCol[k] = cur[p]

\* C5: no silent loss on the dead-letter path.  The ack of the dead-letter
\* sequence finalizes the original only after its wrapper was added to the
\* dead-letter queue; a sequence that stops before that ack (crash, store
\* error, ack rejected because the lease ran out) leaves the collection as
\* it is, so the original stays stored and not finalized and is claimable
\* once its lease is over.
C5_NoSilentLoss ==
    [][\A p \in Procs :
          /\ (pc[p] = "dead_ack" /\ pc'[p] = "reget") =>
                \E k \in 1..Len(deadCol) : deadCol[k] = cur[p]
          /\ (pc[p] \in {"dead_add", "dead_ack"} /\ pc'[p] = "idle") =>
                /\ col' = col
                /\ deadCol' = deadCol]_vars

\* the ack of the sequence was rejected because the lease had run out: the
\* wrapper is in the dead-letter queue, the original is stored, not
\* finalized and claimable again
C5_Witness ==
    /\ ret.op = "get" /\ ret.err = "unidentified ack"
    /\ \E k \in 1..Len(deadCol) :
          /\ deadCol[k].id \in DOMAIN col
          /\ col[deadCol[k].id].ack = deadCol[k].ack
          /\ LeaseExpired(deadCol[k].id)


\* C6: idempotent insert.  addIfMissing with an id the collection holds
\* changes no field of any message, whatever the state of that message;
\* with a new id it stores the message with the payload given and touches
\* no other message.  The payload of a stored message never changes, and
\* only clean takes a message out of the collection.
C6_IdempotentInsert ==
    [][/\ \A x \in CustomIds, pl \in Payloads, d \in DelayOpts :
             (ret'.op = "addIfMissing" /\ AddIfMissing(x, pl, d)) =>
                 IF x \in DOMAIN col
                 THEN col' = col
                 ELSE /\ DOMAIN col' = DOMAIN col \cup {x}
                      /\ col'[x].payload = pl
                      /\ col'[x].tries = 0 /\ col'[x].ack = 0
                      /\ col'[x].deleted = None
                      /\ \A i \in DOMAIN col : col'[i] = col[i]
       /\ \A i \in DOMAIN col :
             /\ i \in DOMAIN col' => col'[i].payload = col[i].payload
             /\ i \notin DOMAIN col' => ret'.op = "clean"]_vars

\* a second addIfMissing was answered while the message with that id,
\* stored with payload "a", is leased
C6_Witness ==
    /\ ret.op = "addIfMissing" /\ ret.id = 0
    /\ \E x \in CustomIds :
          /\ x \in DOMAIN col
          /\ col[x].payload = "a"
          /\ LeaseLive(x)

\* C7: return value of addIfMissing.  The call returns the id exactly when
\* it inserted the message (no message had that id) and null (0) exactly
\* when a message with that id was stored already; it never fails.
C7_AddIfMissingReturn ==
    [][\A x \in CustomIds, pl \in Payloads, d \in DelayOpts :
          (ret'.op = "addIfMissing" /\ AddIfMissing(x, pl, d)) =>
              /\ ret'.err = ""
              /\ (ret'.id = x) <=> (x \notin DOMAIN col /\ x \in DOMAIN col')
              /\ (ret'.id = 0) <=> (x \in DOMAIN col)
              /\ ret'.id \in {0, x}]_vars

\* addIfMissing returned the id of a message it inserted after clean had
\* removed an earlier message of that id
C7_Witness ==
    /\ ret.op = "addIfMissing" /\ ret.id # 0
    /\ ret.id \in DOMAIN col
    /\ col[ret.id].tries = 0
    /\ nextTok > 1

\* C8: finalized is terminal.  A message with deleted set is returned by no
\* get, no step changes any of its fields, and only clean removes it.
C8_FinalizedIsTerminal ==
    [][\A i \in DOMAIN col :
          Finalized(i) =>
              /\ ~(GotMsg(ret') /\ ret'.id = i)
              /\ i \in DOMAIN col' => col'[i] = col[i]
              /\ i \notin DOMAIN col' => ret'.op = "clean"]_vars

\* a get came back empty over a finalized message whose visible time has
\* passed, at a time later than its finalization
C8_Witness ==
    /\ GotNone(ret)
    /\ \E i \in DOMAIN col :
          Finalized(i) /\ col[i].visible <= now /\ col[i].deleted < now

\* C9: visible_at only moves forward.  No step sets the visible time of a
\* stored message to an earlier value, and a successful get sets a strictly
\* later one.  (The claim asks for a strictly later value after a ping as
\* well; "not earlier" is the part of it stated here for ping.)
C9_VisibleOnlyForward ==
    [][\A i \in DOMAIN col :
          i \in DOMAIN col' =>
              /\ col'[i].visible >= col[i].visible
              /\ (GotMsg(ret') /\ ret'.id = i)
                    => col'[i].visible > col[i].visible]_vars

\* C10: tries counts claims.  The tries of every stored message is the
\* number of claims get made of it since its insertion (claims is raised by
\* one in every claim, redirected or not, and by nothing else), and a get
\* that returns a message reports that number.
C10_TriesCountsClaims ==
    /\ \A i \in DOMAIN col : col[i].tries = claims[i]
    /\ GotMsg(ret) => /\ ret.id \in DOMAIN col
                      /\ ret.tries = claims[ret.id]
                      /\ ret.tries >= 1

\* a third claim was redirected and counted, after pings and an ack
C10_Witness ==
    \E p \in Procs :
        /\ pc[p] = "dead_add"
        /\ cur[p].id \in DOMAIN col
        /\ claims[cur[p].id] = 3
        /\ col[cur[p].id].tries = 3

\* C11: token uniqueness.  id() hands out the tokens 1, 2, ... in turn
\* (nextTok is the next one), so every issued token is below nextTok.  The
\* tokens stored in the collection are pairwise different, and the token a
\* get returns is the newest one issued: it is stored on the returned
\* message and on no other, and was never issued before.
C11_TokenUniqueness ==
    /\ \A i \in DOMAIN col : col[i].ack < nextTok
    /\ \A i, j \in DOMAIN col :
          (i # j /\ col[i].ack # 0) => col[i].ack # col[j].ack
    /\ GotMsg(ret) => /\ ret.ack = nextTok - 1
                      /\ col[ret.id].ack = ret.ack
                      /\ \A j \in DOMAIN col \ {ret.id} : col[j].ack # ret.ack

\* two messages carry tokens, one of them the token of its second claim,
\* which the last get returned
C11_Witness ==
    /\ GotMsg(ret)
    /\ col[ret.id].tries = 2
    /\ \E j \in DOMAIN col \ {ret.id} : col[j].ack # 0

\* C20: no caller sees an over-retried message.  With a dead-letter queue
\* and ceiling maxRetries, a get that calls back with a message reports
\* tries between 1 and maxRetries; a message claimed beyond the ceiling is
\* held by the dead-letter sequence and not called back.
C20_NoOverRetriedReturn ==
    /\ GotMsg(ret) => (self.deadQueue =>
                          ret.tries >= 1 /\ ret.tries <= self.maxRetries)
    /\ \A p \in Procs :
          pc[p] # "idle" => /\ cur[p].tries > self.maxRetries
                            /\ ~(GotMsg(ret) /\ ret.ack = cur[p].ack)

\* a get claimed a message beyond the ceiling, redirected it and called
\* back with nothing
C20_Witness ==
    /\ GotNone(ret)
    /\ deadCol # <<>>
    /\ \E i \in DOMAIN col :
          col[i].tries > self.maxRetries /\ Finalized(i)

\* C12: counts partition.  At every instant no message is matched by two
\* of the queries of size, inFlight and done, so size + inFlight + done is
\* at most total; and an add of one message with no delay to an empty
\* queue leaves size = 1, inFlight = 0 and done = 0.
C12_CountsPartition ==
    /\ [](/\ \A i \in DOMAIN col :
               /\ ~(SizeQuery(col[i]) /\ InFlightQuery(col[i]))
               /\ ~(SizeQuery(col[i]) /\ DoneQuery(col[i]))
               /\ ~(InFlightQuery(col[i]) /\ DoneQuery(col[i]))
          /\ Size + InFlight + Done <= Total)
    /\ [][(ret'.op = "add" /\ col = <<>> /\ \E x \in AddPayloads : Add(x, 0)) =>
             (Total' = 1 /\ Size' = 1 /\ InFlight' = 0 /\ Done' = 0)]_vars

\* the queue was used and emptied by clean, and then one message was added
\* with no delay
C12_Witness ==
    /\ ret.op = "add" /\ ret.err = "" /\ ret.id # 0
    /\ nextTok > 1
    /\ Total = 1 /\ Size = 1 /\ InFlight = 0 /\ Done = 0

\* message i was inserted and never claimed, and is not visible yet
Delayed(i) == /\ col[i].deleted = None
              /\ col[i].ack = 0
              /\ col[i].visible > now

\* C13: delay honoured.  add and addIfMissing with delay d > 0 at time t
\* store the new message with visible = t + d.  While such a message is
\* not visible yet no step returns it from a get and no step finalizes or
\* changes it (a cancel of it fails).  Once it is visible and is the
\* claimable message with the smallest id, a get that calls back returns
\* it.
C13_DelayHonoured ==
    [][/\ \A d \in {x \in DelayOpts : x > 0} :
             /\ \A id \in CustomIds \ DOMAIN col :
                   (/\ ret'.op = "addIfMissing"
                    /\ \E x \in Payloads : AddIfMissing(id, x, d)) =>
                      col'[id].visible = now + d
             /\ (/\ ret'.op = "add"
                 /\ \/ \E x \in AddPayloads : Add(x, d)
                    \/ \E xs \in PayloadArrays : AddArray(xs, d)) =>
                   \A i \in DOMAIN col' \ DOMAIN col : col'[i].visible = now + d
       /\ \A i \in DOMAIN col :
             /\ Delayed(i) =>
                   /\ ~(GotMsg(ret') /\ ret'.id = i)
                   /\ i \in DOMAIN col'
                   /\ col'[i] = col[i]
                   /\ (ret'.op = "cancel" /\ Cancel(i)) =>
                         ret'.err = "unidentified id"
             /\ (/\ GetQuery(col[i]) /\ col[i].ack = 0
                 /\ i = GetSelect
                 /\ ret'.op = "get" /\ ret'.err = "") =>
                   /\ GotMsg(ret') /\ ret'.id = i
                   /\ ret'.tries = 1]_vars

\* a message was added with a delay, is not visible yet, and a get came
\* back empty
C13_Witness ==
    /\ GotNone(ret)
    /\ \E i \in DOMAIN col : Delayed(i) /\ col[i].visible = now + 1

\* C14: cancel.  cancel(id) succeeds exactly when a message with that id is
\* stored, is not finalized and has visible <= now; it then stamps deleted
\* and changes nothing else.  In every other case it calls back with
\* 'unidentified id' and the collection stays as it is; in particular a
\* message under a running lease stays under that lease, so an ack with
\* its token still matches.
C14_CancelExactlyWhenIdle ==
    [][\A id \in AllIds :
          (ret'.op = "cancel" /\ Cancel(id)) =>
             IF /\ id \in DOMAIN col
                /\ ~Finalized(id)
                /\ col[id].visible <= now
             THEN /\ ret'.err = ""
                  /\ col' = [col EXCEPT ![id].deleted = now]
             ELSE /\ ret'.err = "unidentified id"
                  /\ col' = col
                  /\ (id \in DOMAIN col /\ LeaseLive(id)) =>
                        /\ col'[id].ack = col[id].ack
                        /\ col'[id].visible > now'
                        /\ col'[id].deleted = None]_vars

\* a cancel was refused while every id is stored, one message under a
\* running lease and the other finalized
C14_Witness ==
    /\ ret.op = "cancel" /\ ret.err = "unidentified id"
    /\ DOMAIN col = AllIds
    /\ \E i, j \in DOMAIN col : LeaseLive(i) /\ Finalized(j)

\* C15: clean is safe.  A clean step removes exactly the messages that are
\* finalized when it runs and leaves every other message with all its
\* fields.  What the other calls would find is the same before and after
\* it: the messages get can claim, the message each token matches for ack
\* and for ping, the ids cancel accepts, and the counts of size and
\* inFlight; done drops to 0 and total by the number removed.
C15_CleanIsSafe ==
    [][(ret'.op = "clean" /\ Clean) =>
          /\ DOMAIN col' = {i \in DOMAIN col : ~Finalized(i)}
          /\ \A i \in DOMAIN col' : col'[i] = col[i]
          /\ {i \in DOMAIN col' : GetQuery(col'[i])}
                = {i \in DOMAIN col : GetQuery(col[i])}
          /\ \A t \in Tokens :
                /\ {i \in DOMAIN col' : AckQuery(col'[i], t)}
                      = {i \in DOMAIN col : AckQuery(col[i], t)}
                /\ {i \in DOMAIN col' : PingQuery(col'[i], t)}
                      = {i \in DOMAIN col : PingQuery(col[i], t)}
          /\ \A id \in AllIds :
                {i \in DOMAIN col' : CancelQuery(i, col'[i], id)}
                   = {i \in DOMAIN col : CancelQuery(i, col[i], id)}
          /\ Size' = Size /\ InFlight' = InFlight
          /\ Done' = 0 /\ Total' = Total - Done]_vars

\* clean has just removed the added message while the other message is
\* under a running lease
C15_Witness ==
    /\ ret.op = "clean"
    /\ nextOid > 1 /\ GenId(1) \notin DOMAIN col
    /\ \E i \in DOMAIN col : LeaseLive(i)

\* the messages a claim attempt can take
Claimable == {i \in DOMAIN col : GetQuery(col[i])}

\* C17: claim order.  Every claim takes a message that is claimable at
\* that moment and has the smallest id among the claimable ones, and a get
\* that returns a message has claimed it in that step.  A claim attempt
\* calls back with nothing exactly when no message is claimable, and that
\* step changes nothing in the queue.
C17_ClaimOrder ==
    [][/\ \A i \in DOMAIN col :
             Claimed(i) => /\ i \in Claimable
                           /\ \A j \in Claimable : i <= j
       /\ GotMsg(ret') => Claimed(ret'.id)
       /\ GotNone(ret') => /\ Claimable = {}
                           /\ col' = col
                           /\ deadCol' = deadCol
                           /\ nextTok' = nextTok
       /\ (/\ Claimable = {}
           /\ \E p \in Procs : Get(p, CallOpts[p]) \/ ReGet(p)) =>
             GotNone(ret')]_vars

\* a get returned a message while a message with a larger id was
\* claimable too
C17_Witness ==
    /\ GotMsg(ret)
    /\ \E j \in Claimable : j > ret.id

\* C16: call-level delay overrides the queue default.  add and addIfMissing
\* called with a delay option d >= 0, d = 0 included, store the new message
\* with visible = now + d whatever the delay of the queue; called with no
\* delay option they store it with visible = now + the delay of the queue.
C16_CallDelayOverrides ==
    [][\A d \in DelayOpts :
          LET delay == IF d = None THEN self.delay ELSE d
          IN  /\ \A id \in CustomIds \ DOMAIN col :
                    (/\ ret'.op = "addIfMissing"
                     /\ \E x \in Payloads : AddIfMissing(id, x, d)) =>
                       col'[id].visible = now + delay
              /\ (/\ ret'.op = "add"
                  /\ \/ \E x \in AddPayloads : Add(x, d)
                     \/ \E xs \in PayloadArrays : AddArray(xs, d)) =>
                    \A i \in DOMAIN col' \ DOMAIN col :
                        col'[i].visible = now + delay]_vars

\* C18: call-level visibility governs the returned lease.  A message that
\* a get call of consumer p returns is leased for the visibility of that
\* call (its option, or the queue's visibility when it gives none): its
\* visible is the time of its claim plus that visibility, both when the
\* call returns the first message it claims and when it returns a message
\* claimed after redirecting over-retried ones.
C18_CallVisibilityGovernsLease ==
    [][\A p \in Procs :
          (/\ GotMsg(ret')
           /\ Get(p, CallOpts[p]) \/ ReGet(p)) =>
             col'[ret'.id].visible = now + Or(CallOpts[p], self.visibility)]_vars

====
